---- MODULE Spec2Model ----
(***************************************************************************)
(* A model of the study-log single page application in src/src/App.jsx:    *)
(* the post collection, its copy in local storage, the draft of the entry  *)
(* form, the search query and the derived feed.                            *)
(*                                                                         *)
(* Text is a sequence of one-character strings, so that trim, split, join, *)
(* toLowerCase and includes are computed character by character.  A date   *)
(* is the number of a day: zero-padded YYYY-MM-DD strings are ordered as   *)
(* their days are, and 0 is the empty string of a blank date input, which  *)
(* sorts below every date and is falsy.  The text of the seed posts is     *)
(* shortened to a few letters.                                             *)
(***************************************************************************)
EXTENDS Integers, Sequences, FiniteSets, Bags, TLC

VARIABLES
    storage,        \* the local-storage slot under STORAGE_KEY
    posts,          \* useState posts
    draft,          \* useState draft
    query,          \* useState query
    now,            \* the clock, in milliseconds since the page was loaded
    hasCrypto,      \* whether the runtime provides crypto.randomUUID
    emptyDraftDate, \* emptyDraft.date, computed once when the module is loaded
    made,           \* how many posts handleSubmit has created
    issued,         \* every id a post of the collection has carried
    last            \* the handler that ran last, with its input

vars == <<storage, posts, draft, query, now, hasCrypto, emptyDraftDate, made, issued, last>>

----------------------------------------------------------------------------
(* Bounds of the model. *)

\* the clock stops after this many milliseconds
MaxNow == 2
\* handleSubmit creates at most this many posts
MaxMade == 2
\* a stored text has at most this many JSON tokens
MaxTextLen == 3
\* the collections the feed is computed for have at most this many posts
MaxViewLen == 3

----------------------------------------------------------------------------
(* Text. *)

IsSpace(c) == c = " "

LowerChar(c) ==
    CASE c = "A" -> "a"
      [] c = "B" -> "b"
      [] c = "K" -> "k"
      [] c = "F" -> "f"
      [] c = "D" -> "d"
      [] c = "C" -> "c"
      [] c = "M" -> "m"
      [] OTHER -> c

RECURSIVE ToLowerCase(_)
ToLowerCase(s) ==
    IF s = <<>> THEN <<>> ELSE <<LowerChar(Head(s))>> \o ToLowerCase(Tail(s))

RECURSIVE TrimStart(_)
TrimStart(s) ==
    IF s # <<>> /\ IsSpace(Head(s)) THEN TrimStart(Tail(s)) ELSE s

RECURSIVE TrimEnd(_)
TrimEnd(s) ==
    IF s # <<>> /\ IsSpace(s[Len(s)]) THEN TrimEnd(SubSeq(s, 1, Len(s) - 1)) ELSE s

Trim(s) == TrimEnd(TrimStart(s))

\* s.split(","): "" splits into one empty string
RECURSIVE Split(_)
Split(s) ==
    IF \A i \in 1..Len(s) : s[i] # ","
    THEN <<s>>
    ELSE LET k == CHOOSE i \in 1..Len(s) : s[i] = "," /\ \A j \in 1..(i - 1) : s[j] # ","
         IN  <<SubSeq(s, 1, k - 1)>> \o Split(SubSeq(s, k + 1, Len(s)))

\* list.join(" ")
RECURSIVE Join(_)
Join(list) ==
    IF list = <<>> THEN <<>>
    ELSE IF Len(list) = 1 THEN list[1]
    ELSE list[1] \o <<" ">> \o Join(Tail(list))

\* haystack.includes(needle)
Includes(haystack, needle) ==
    \E k \in 0..(Len(haystack) - Len(needle)) :
        SubSeq(haystack, k + 1, k + Len(needle)) = needle

RECURSIVE MapTrim(_)
MapTrim(list) ==
    IF list = <<>> THEN <<>> ELSE <<Trim(Head(list))>> \o MapTrim(Tail(list))

NonEmptyText(s) == s # <<>>

\* draft.tags.split(",").map((tag) => tag.trim()).filter(Boolean)
ParseTags(s) == SelectSeq(MapTrim(Split(s)), NonEmptyText)

----------------------------------------------------------------------------
(* The seed set and the draft. *)

seedPosts ==
    << [id |-> <<"seed", 1>>, title |-> <<"K", "g">>, date |-> 2,
        tags |-> << <<"p", "l">>, <<"g", "o">> >>,
        summary |-> <<"D", "s">>, content |-> <<"M", "w">>],
       [id |-> <<"seed", 2>>, title |-> <<"F", "p">>, date |-> 1,
        tags |-> << <<"p", "r">>, <<"n", "o">> >>,
        summary |-> <<"C", "f">>, content |-> <<"B", "t">>] >>

\* new Date().toISOString().slice(0, 10): two milliseconds of the model's
\* clock make a day, and the page is loaded on day 3, after both seed dates
DateOf(ms) == 3 + (ms \div 2)

emptyDraft(date) ==
    [title |-> <<>>, date |-> date, tags |-> <<>>, summary |-> <<>>, content |-> <<>>]

----------------------------------------------------------------------------
(* The stored value: JSON text as a sequence of tokens. *)

Tok(t) == <<t>>
Obj(post) == <<"obj", post>>

IsObj(tok) == Len(tok) = 2

RECURSIVE JoinComma(_)
JoinComma(list) ==
    IF list = <<>> THEN <<>>
    ELSE IF Len(list) = 1 THEN <<Obj(list[1])>>
    ELSE <<Obj(list[1]), Tok(",")>> \o JoinComma(Tail(list))

\* JSON.stringify(posts)
Stringify(list) == <<Tok("[")>> \o JoinComma(list) \o <<Tok("]")>>

\* the elements between the brackets: objects separated by single commas
Elements(inner) ==
    \/ inner = <<>>
    \/ /\ Len(inner) % 2 = 1
       /\ \A i \in 1..Len(inner) :
            IF i % 2 = 1 THEN IsObj(inner[i]) ELSE inner[i] = Tok(",")

RECURSIVE Objects(_)
Objects(inner) ==
    IF inner = <<>> THEN <<>>
    ELSE IF IsObj(Head(inner)) THEN <<Head(inner)[2]>> \o Objects(Tail(inner))
    ELSE Objects(Tail(inner))

\* JSON.parse(text): ok is FALSE where it throws
Parse(text) ==
    IF Len(text) = 1 /\ (IsObj(text[1]) \/ text[1] = Tok("null"))
    THEN [ok |-> TRUE, isArray |-> FALSE, items |-> <<>>]
    ELSE IF /\ Len(text) >= 2
            /\ text[1] = Tok("[")
            /\ text[Len(text)] = Tok("]")
            /\ Elements(SubSeq(text, 2, Len(text) - 1))
    THEN [ok |-> TRUE, isArray |-> TRUE, items |-> Objects(SubSeq(text, 2, Len(text) - 1))]
    ELSE [ok |-> FALSE, isArray |-> FALSE, items |-> <<>>]

NoItem == [present |-> FALSE, text |-> <<>>]
Item(text) == [present |-> TRUE, text |-> text]

\* a catch handler that returns an empty list instead of falling through
LoadPostsEmptyOnError(saved) ==
    IF ~saved.present \/ saved.text = <<>> THEN seedPosts
    ELSE IF ~Parse(saved.text).ok THEN <<>>
    ELSE IF Parse(saved.text).isArray THEN Parse(saved.text).items
    ELSE seedPosts

\* treating an empty stored array like a missing one
LoadPostsSeedOnEmpty(saved) ==
    IF ~saved.present \/ saved.text = <<>> THEN seedPosts
    ELSE IF Parse(saved.text).ok /\ Parse(saved.text).isArray /\ Parse(saved.text).items # <<>>
    THEN Parse(saved.text).items
    ELSE seedPosts

LoadPosts(saved) ==
    IF ~saved.present \/ saved.text = <<>> THEN seedPosts
    ELSE IF Parse(saved.text).ok /\ Parse(saved.text).isArray THEN Parse(saved.text).items
    ELSE seedPosts

----------------------------------------------------------------------------
(* The feed. *)

\* a.localeCompare(b) on two dates
LocaleCompare(a, b) == IF a < b THEN -1 ELSE IF a > b THEN 1 ELSE 0

\* a comparator with its operands swapped back: oldest first
CompareAscending(a, b) == LocaleCompare(a.date, b.date)

\* (a, b) => b.date.localeCompare(a.date)
Compare(a, b) == LocaleCompare(b.date, a.date)

\* post p, which stood before every post of the sorted list, takes its place in it
RECURSIVE Insert(_, _)
Insert(p, sorted) ==
    IF sorted = <<>> THEN <<p>>
    ELSE IF Compare(p, Head(sorted)) > 0
    THEN <<Head(sorted)>> \o Insert(p, Tail(sorted))
    ELSE <<p>> \o sorted

\* [...list].sort(Compare): Array.prototype.sort is stable
RECURSIVE Sort(_)
Sort(list) ==
    IF list = <<>> THEN <<>> ELSE Insert(Head(list), Sort(Tail(list)))

Haystack(post) ==
    ToLowerCase(Join(<<post.title, post.summary, post.content>> \o post.tags))

FilteredPosts(list, q) ==
    LET normalized == ToLowerCase(Trim(q))
        sorted == Sort(list)
        Matches(post) == Includes(Haystack(post), normalized)
    IN  IF normalized = <<>> THEN sorted ELSE SelectSeq(sorted, Matches)

----------------------------------------------------------------------------
(* The handlers' results. *)

\* a validation that forgets to trim
InvalidNoTrim(d) == d.title = <<>> \/ d.content = <<>>

\* !draft.title.trim() || !draft.content.trim()
Invalid(d) == Trim(d.title) = <<>> \/ Trim(d.content) = <<>>

\* crypto.randomUUID() returns a value no earlier call returned: uuid numbers the call
MakeId(crypto, uuid, ms) == IF crypto THEN <<"uuid", uuid>> ELSE <<"post", ms>>

\* a default date taken from emptyDraft, the day the page was loaded
NewPostStaleDate(d, id, ms) ==
    [id |-> id,
     title |-> Trim(d.title),
     date |-> IF d.date # 0 THEN d.date ELSE DateOf(0),
     tags |-> ParseTags(d.tags),
     summary |-> Trim(d.summary),
     content |-> Trim(d.content)]

NewPost(d, id, ms) ==
    [id |-> id,
     title |-> Trim(d.title),
     date |-> IF d.date # 0 THEN d.date ELSE DateOf(ms),
     tags |-> ParseTags(d.tags),
     summary |-> Trim(d.summary),
     content |-> Trim(d.content)]

\* setPosts((current) => [newPost, ...current])
Prepend(newPost, current) == <<newPost>> \o current

\* current.filter((post) => post.id !== id)
FilterOut(current, id) ==
    LET Keep(post) == post.id # id IN SelectSeq(current, Keep)

\* a reset that does not look at the answer
ResetNoConfirm(answer, current) == seedPosts

ResetResult(answer, current) == IF ~answer THEN current ELSE seedPosts

\* localStorage.setItem(STORAGE_KEY, JSON.stringify(posts))
Save(list) == Item(Stringify(list))

Ids(list) == {list[i].id : i \in 1..Len(list)}

----------------------------------------------------------------------------
(* Inputs. *)

badPost ==
    [id |-> <<"old", 1>>, title |-> <<>>, date |-> 1, tags |-> << <<>> >>,
     summary |-> <<>>, content |-> <<>>]

oldPost ==
    [id |-> <<"old", 2>>, title |-> <<"A">>, date |-> 3, tags |-> << <<"a">> >>,
     summary |-> <<>>, content |-> <<"b">>]

Tokens == {Tok("["), Tok("]"), Tok(","), Tok("null"), Obj(badPost), Obj(oldPost)}

Texts == UNION {[1..n -> Tokens] : n \in 0..MaxTextLen}

StoredValues == {NoItem} \cup {Item(t) : t \in Texts}

\* a post dated after every day the clock reaches
futurePost ==
    [id |-> <<"old", 3>>, title |-> <<"N">>, date |-> 9, tags |-> <<>>,
     summary |-> <<>>, content |-> <<"x">>]

SubmitStoredValues == {NoItem, Item(Stringify(<<>>)), Item(Stringify(<<futurePost>>))}

viewPosts ==
    { [id |-> <<"old", 4>>, title |-> <<"A", "b">>, date |-> 2, tags |-> << <<"p">> >>,
       summary |-> <<>>, content |-> <<"c">>],
      [id |-> <<"old", 5>>, title |-> <<"b">>, date |-> 2, tags |-> <<>>,
       summary |-> <<"A">>, content |-> <<"c">>],
      [id |-> <<"old", 6>>, title |-> <<"c">>, date |-> 1, tags |-> << <<"B">>, <<"a">> >>,
       summary |-> <<>>, content |-> <<"a">>],
      [id |-> <<"old", 7>>, title |-> <<"x">>, date |-> 3, tags |-> <<>>,
       summary |-> <<"y">>, content |-> <<"z">>] }

ViewStoredValues ==
    {Item(Stringify(list)) : list \in UNION {[1..n -> viewPosts] : n \in 0..MaxViewLen}}

TitleInputs == {<<" ">>, <<" ", "A">>}
ContentInputs == {<<"b", " ">>}
TagsInputs == {<<"p", ",", " ", ",", " ", "r", ",">>}
SummaryInputs == {<<"s", " ">>}
DateInputs == {0}
QueryInputs == {<<>>, <<" ">>, <<" ", "A">>, <<"B", " ", "a">>, <<"c", " ", "p">>, <<"A", " ", " ", "c">>}

----------------------------------------------------------------------------
(* The application. *)

Mounted == last[1] # "init"

Init ==
    /\ storage \in StoredValues
    /\ hasCrypto \in BOOLEAN
    /\ posts = <<>>
    /\ now = 0
    /\ emptyDraftDate = DateOf(0)
    /\ draft = emptyDraft(DateOf(0))
    /\ query = <<>>
    /\ made = 0
    /\ issued = {}
    /\ last = <<"init">>

\* the first render and the save effect that follows it
Mount ==
    /\ ~Mounted
    /\ posts' = LoadPosts(storage)
    /\ storage' = Save(posts')
    /\ draft' = emptyDraft(emptyDraftDate)
    /\ query' = <<>>
    /\ issued' = Ids(posts')
    /\ last' = <<"load", storage>>
    /\ UNCHANGED <<now, hasCrypto, emptyDraftDate, made>>

HandleChange(name, value) ==
    /\ Mounted
    /\ draft' = [draft EXCEPT ![name] = value]
    /\ last' = <<"change", name>>
    /\ UNCHANGED <<storage, posts, query, now, hasCrypto, emptyDraftDate, made, issued>>

HandleSubmit ==
    /\ Mounted
    /\ last' = <<"submit", draft>>
    /\ IF Invalid(draft)
       THEN UNCHANGED <<storage, posts, draft, made, issued>>
       ELSE LET newPost == NewPost(draft, MakeId(hasCrypto, made, now), now)
            IN  /\ made < MaxMade
                /\ posts' = Prepend(newPost, posts)
                /\ draft' = [emptyDraft(emptyDraftDate) EXCEPT !.date = newPost.date]
                /\ storage' = Save(posts')
                /\ made' = made + 1
                /\ issued' = issued \cup {newPost.id}
    /\ UNCHANGED <<query, now, hasCrypto, emptyDraftDate>>

RemovePost(id) ==
    /\ Mounted
    /\ posts' = FilterOut(posts, id)
    /\ storage' = Save(posts')
    /\ last' = <<"remove", id>>
    /\ UNCHANGED <<draft, query, now, hasCrypto, emptyDraftDate, made, issued>>

ResetPosts(answer) ==
    /\ Mounted
    /\ posts' = ResetResult(answer, posts)
    /\ storage' = IF answer THEN Save(posts') ELSE storage
    /\ issued' = issued \cup Ids(posts')
    /\ last' = <<"reset", answer>>
    /\ UNCHANGED <<draft, query, now, hasCrypto, emptyDraftDate, made>>

\* the Clear button
Clear ==
    /\ Mounted
    /\ draft' = emptyDraft(emptyDraftDate)
    /\ last' = <<"clear">>
    /\ UNCHANGED <<storage, posts, query, now, hasCrypto, emptyDraftDate, made, issued>>

SetQuery(q) ==
    /\ Mounted
    /\ query' = q
    /\ last' = <<"query">>
    /\ UNCHANGED <<storage, posts, draft, now, hasCrypto, emptyDraftDate, made, issued>>

\* a millisecond passes
Tick ==
    /\ Mounted
    /\ now < MaxNow
    /\ now' = now + 1
    /\ last' = <<"tick">>
    /\ UNCHANGED <<storage, posts, draft, query, hasCrypto, emptyDraftDate, made, issued>>

Next ==
    \/ Mount
    \/ \E v \in TitleInputs : HandleChange("title", v)
    \/ \E v \in ContentInputs : HandleChange("content", v)
    \/ \E v \in TagsInputs : HandleChange("tags", v)
    \/ HandleSubmit
    \/ \E id \in issued : RemovePost(id)
    \/ \E answer \in BOOLEAN : ResetPosts(answer)
    \/ Clear
    \/ Tick

\* the store: load, submit, remove, reset and clear, with the clock running
Spec == Init /\ [][Next]_vars

InitSubmit ==
    /\ Init
    /\ storage \in SubmitStoredValues

NextSubmit ==
    \/ Mount
    \/ HandleChange("title", <<" ", "A">>)
    \/ \E v \in ContentInputs : HandleChange("content", v)
    \/ \E v \in TagsInputs : HandleChange("tags", v)
    \/ \E v \in SummaryInputs : HandleChange("summary", v)
    \/ \E v \in DateInputs : HandleChange("date", v)
    \/ HandleSubmit
    \/ Tick

\* the entry form: every field of the draft, submit and the clock
SpecSubmit == InitSubmit /\ [][NextSubmit]_vars

InitView ==
    /\ storage \in ViewStoredValues
    /\ hasCrypto = TRUE
    /\ posts = <<>>
    /\ now = 0
    /\ emptyDraftDate = DateOf(0)
    /\ draft = emptyDraft(DateOf(0))
    /\ query = <<>>
    /\ made = 0
    /\ issued = {}
    /\ last = <<"init">>

NextView ==
    \/ Mount
    \/ \E q \in QueryInputs : SetQuery(q)

\* the feed: every collection of a few posts, under every query
SpecView == InitView /\ [][NextView]_vars

----------------------------------------------------------------------------
(* Properties. *)

\* C1: once the application is mounted, after every handler and its save effect,
\* the slot holds the serialization of the collection in memory and loadPosts()
\* returns that collection, the empty collection included.
StorageMirrorsPosts ==
    Mounted =>
        /\ storage.present
        /\ storage.text = <<Tok("[")>> \o JoinComma(posts) \o <<Tok("]")>>
        /\ LoadPosts(storage) = posts

\* C1 witness: both seed posts were removed and the empty collection is stored.
EmptyCollectionStored ==
    /\ last[1] = "remove"
    /\ posts = <<>>
    /\ storage.text = <<Tok("["), Tok("]")>>

\* C2: loadPosts() returns the seed set when the stored value is absent, cannot be
\* parsed or parses to something that is no array, and the parsed array otherwise.
LoadFallsBackToSeed ==
    last[1] = "load" =>
        IF \/ ~last[2].present
           \/ ~Parse(last[2].text).ok
           \/ ~Parse(last[2].text).isArray
        THEN posts = seedPosts
        ELSE posts = Parse(last[2].text).items

\* C2 witness: the application was loaded from a stored text that does not parse.
LoadedFromCorruptText ==
    /\ last[1] = "load"
    /\ last[2].present
    /\ Len(last[2].text) = MaxTextLen
    /\ ~Parse(last[2].text).ok
    /\ posts = seedPosts

\* C3: a submit whose title or content is empty after trimming changes neither
\* the collection nor the stored value nor the draft.
BlankSubmitChangesNothing ==
    [][(/\ last'[1] = "submit"
        /\ (Trim(draft.title) = <<>> \/ Trim(draft.content) = <<>>))
       => (posts' = posts /\ storage' = storage /\ draft' = draft)]_vars

\* C3 witness: a submit with a title of white space and a content was rejected.
WhitespaceTitleRejected ==
    /\ last[1] = "submit"
    /\ last[2].title # <<>>
    /\ Trim(last[2].title) = <<>>
    /\ Trim(last[2].content) # <<>>
    /\ draft = last[2]

\* C4: a declined resetPosts leaves the collection and the stored value as they
\* were, a confirmed one makes the collection the seed set.
ResetAsksFirst ==
    [][last'[1] = "reset" =>
          IF last'[2]
          THEN posts' = seedPosts
          ELSE posts' = posts /\ storage' = storage]_vars

\* C4 witness: a reset was declined while the collection held a post of the user.
ResetDeclinedKeepsUserPost ==
    /\ last = <<"reset", FALSE>>
    /\ made > 0
    /\ posts # <<>>
    /\ posts # seedPosts
    /\ Head(posts).id \notin Ids(seedPosts)

\* C5: every post of the collection has a title and a content that are not empty,
\* and no tag of it is empty.
PostsWellFormed ==
    \A i \in 1..Len(posts) :
        /\ posts[i].title # <<>>
        /\ posts[i].content # <<>>
        /\ \A k \in 1..Len(posts[i].tags) : posts[i].tags[k] # <<>>

\* C6: no two posts of the collection have the same id, and the id handleSubmit
\* gives a new post was never the id of a post before.
IdsUniqueNeverReused ==
    [][/\ \A i, j \in 1..Len(posts') : posts'[i].id = posts'[j].id => i = j
       /\ (last'[1] = "submit" /\ Len(posts') = Len(posts) + 1)
            => Head(posts').id \notin issued]_vars

\* C7: a successful submit makes the collection one longer, a removePost whose id
\* matches no post leaves it as it is, and one that finds its id takes out that
\* post alone and keeps the others in their order.
RemoveTakesOnePost ==
    [][/\ (last'[1] = "submit" /\ posts' # posts) => Len(posts') = Len(posts) + 1
       /\ last'[1] = "remove" =>
            \/ posts' = posts /\ last'[2] \notin Ids(posts)
            \/ \E i \in 1..Len(posts) :
                 /\ posts[i].id = last'[2]
                 /\ posts' = SubSeq(posts, 1, i - 1) \o SubSeq(posts, i + 1, Len(posts))]_vars

Range(list) == {list[i] : i \in 1..Len(list)}

BagOf(list) == [x \in Range(list) |-> Cardinality({i \in 1..Len(list) : list[i] = x})]

RECURSIVE SpacedTags(_)
SpacedTags(tags) ==
    IF tags = <<>> THEN <<>> ELSE <<" ">> \o Head(tags) \o SpacedTags(Tail(tags))

\* whether a post is to be shown under the query
Shown(post) ==
    LET needle == ToLowerCase(Trim(query))
        text == post.title \o <<" ">> \o post.summary \o <<" ">> \o post.content
                    \o SpacedTags(post.tags)
    IN  \/ needle = <<>>
        \/ \E k \in 1..Len(text) :
             /\ k + Len(needle) - 1 <= Len(text)
             /\ \A n \in 1..Len(needle) : LowerChar(text[k + n - 1]) = needle[n]

BlankDateSubmitIsToday ==
    [][(/\ last'[1] = "submit"
        /\ Trim(draft.title) # <<>>
        /\ Trim(draft.content) # <<>>
        /\ draft.date = 0)
       => /\ Len(posts') = Len(posts) + 1
          /\ Tail(posts') = posts
          /\ Head(posts').date = DateOf(now)
          /\ Trim(draft.tags) = <<>> => Head(posts').tags = <<>>
          /\ (\A i \in 1..Len(posts) : posts[i].date <= DateOf(now))
                => Head(FilteredPosts(posts', <<>>)) = Head(posts')]_vars

\* C9 witness: a post submitted with a blank date, a day after the page was
\* loaded, heads the feed before an earlier post of the same day.
BlankDatePostHeadsFeed ==
    /\ last[1] = "submit"
    /\ last[2].date = 0
    /\ Trim(last[2].tags) = <<>>
    /\ Len(posts) >= 2
    /\ posts[1].id # posts[2].id
    /\ posts[1].date = DateOf(now)
    /\ posts[2].date = DateOf(now)
    /\ DateOf(now) # emptyDraftDate
    /\ posts[1].tags = <<>>
    /\ Head(FilteredPosts(posts, <<>>)) = posts[1]

\* C10: after a successful submit the draft is empty but for the date of the new
\* post, and after clear it is empty but for the current date.
DraftResetDates ==
    /\ (last[1] = "submit" /\ ~(Trim(last[2].title) = <<>> \/ Trim(last[2].content) = <<>>))
         => draft = [title |-> <<>>, date |-> Head(posts).date, tags |-> <<>>,
                     summary |-> <<>>, content |-> <<>>]
    /\ last[1] = "clear"
         => draft = [title |-> <<>>, date |-> DateOf(now), tags |-> <<>>,
                     summary |-> <<>>, content |-> <<>>]

====
